---- MODULE Spec2Model ----
(***************************************************************************)
(* State-machine model of the Aadhaar EWS batch pipeline                   *)
(* (src/process_data.py, class AadhaarEWSProcessor).                       *)
(*                                                                         *)
(* One action per pipeline stage, in the order run_pipeline calls them.    *)
(* Tables (pandas DataFrames) are sequences of records whose fields are    *)
(* the columns.  Floating-point values are exact rationals [num, den]      *)
(* with den = 0 standing for NaN; the standard deviation's square root is  *)
(* taken in fixed point (CvScale).                                         *)
(***************************************************************************)
EXTENDS Integers, Sequences, FiniteSets, TLC

VARIABLES
    pc,              \* the stage run_pipeline calls next, or "done" / "failed"
    error,           \* the exception run_pipeline re-raised, "none" if none
    enrolment_df,    \* self.enrolment_df
    demographic_df,  \* self.demographic_df
    biometric_df,    \* self.biometric_df
    pincode_ref,     \* self.pincode_ref
    ews_data,        \* self.ews_data
    weights,         \* the weights dict of compute_severity_scores
    files,           \* the files written under output_dir
    geo_log,         \* what _apply_canonicalization logs per stream
    forest,          \* what IsolationForest(random_state=42) returned, per input
    pending,         \* detect_anomalies' loop: the districts still to visit
    twin             \* a second processor, where two runs are compared

vars == <<pc, error, enrolment_df, demographic_df, biometric_df, pincode_ref,
          ews_data, weights, files, geo_log, forest, pending, twin>>

(***************************************************************************)
(* Bounds of the model.                                                    *)
(***************************************************************************)
MaxEvents == 2      \* event rows over the three input tables together
MaxTotal == 1       \* largest enrolment total of a drawn aggregated table
CvScale == 100      \* fixed-point resolution of the coefficient of variation

(***************************************************************************)
(* Floating point: exact rationals, NaN as den = 0.                        *)
(***************************************************************************)
NaN == [num |-> 0, den |-> 0]

IsNaN(x) == x.den = 0

Abs(x) == IF x < 0 THEN -x ELSE x

RECURSIVE GCD(_, _)
GCD(a, b) == IF b = 0 THEN a ELSE GCD(b, a % b)

Rat(n, d) ==
    LET g == GCD(Abs(n), d) IN [num |-> n \div g, den |-> d \div g]

RInt(n) == [num |-> n, den |-> 1]

LCM(a, b) == (a * b) \div GCD(a, b)

RAdd(a, b) ==
    IF IsNaN(a) \/ IsNaN(b) THEN NaN
    ELSE LET l == LCM(a.den, b.den)
         IN Rat(a.num * (l \div a.den) + b.num * (l \div b.den), l)

RNeg(a) == IF IsNaN(a) THEN NaN ELSE [num |-> -a.num, den |-> a.den]

RSub(a, b) == RAdd(a, RNeg(b))

RMul(a, b) ==
    IF IsNaN(a) \/ IsNaN(b) THEN NaN ELSE Rat(a.num * b.num, a.den * b.den)

\* numpy float division; 0/0 is nan.  A positive value is never divided by
\* zero in this program (a stream with a positive cv makes total_cv positive).
RDiv(a, b) ==
    IF IsNaN(a) \/ IsNaN(b) \/ b.num = 0 THEN NaN
    ELSE IF b.num > 0 THEN Rat(a.num * b.den, a.den * b.num)
    ELSE Rat(-(a.num * b.den), a.den * (-b.num))

\* IEEE comparisons: every comparison with NaN is false.
RLt(a, b) == ~IsNaN(a) /\ ~IsNaN(b) /\ a.num * b.den < b.num * a.den
RGt(a, b) == RLt(b, a)
RGe(a, b) == ~IsNaN(a) /\ ~IsNaN(b) /\ a.num * b.den >= b.num * a.den
RLe(a, b) == RGe(b, a)
REq(a, b) == ~IsNaN(a) /\ ~IsNaN(b) /\ a.num * b.den = b.num * a.den

\* floor(sqrt(x)) for x >= 0, by bisection on lo..hi (lo*lo <= x < (hi+1)^2)
RECURSIVE ISqrtIn(_, _, _)
ISqrtIn(x, lo, hi) ==
    IF lo >= hi THEN lo
    ELSE LET mid == (lo + hi + 1) \div 2
         IN IF mid * mid <= x THEN ISqrtIn(x, mid, hi) ELSE ISqrtIn(x, lo, mid - 1)

ISqrt(x) == ISqrtIn(x, 0, 46340)

(***************************************************************************)
(* Sequences and tables.                                                   *)
(***************************************************************************)
Range(s) == {s[i] : i \in DOMAIN s}

RECURSIVE SumSeq(_)
SumSeq(s) == IF s = <<>> THEN 0 ELSE Head(s) + SumSeq(Tail(s))

RECURSIVE SumSet(_, _)
\* sum of f[x] over the finite set S
SumSet(S, f) ==
    IF S = {} THEN 0
    ELSE LET x == CHOOSE y \in S : TRUE IN f[x] + SumSet(S \ {x}, f)

\* Lexicographic order of the label strings that occur as group keys.
LabelOrder == <<"A", "B", "S1", "S2">>

LabelRank(l) == CHOOSE i \in DOMAIN LabelOrder : LabelOrder[i] = l

\* A missing (NaN) label of an object column.
NaNLabel == "<NA>"

(***************************************************************************)
(* Dates: pd.to_datetime(format='%d-%m-%Y', errors='coerce') and           *)
(* .dt.to_period('W-MON').astype(str).                                     *)
(* A raw date string 'dd-mm-YYYY' is the triple <<dd, mm, YYYY>> of its    *)
(* fields; a parsed date is its proleptic ordinal, or NaT.                 *)
(***************************************************************************)
IsLeap(y) == (y % 4 = 0 /\ y % 100 # 0) \/ y % 400 = 0

DaysInMonth(m, y) ==
    IF m = 2 THEN (IF IsLeap(y) THEN 29 ELSE 28)
    ELSE IF m \in {4, 6, 9, 11} THEN 30 ELSE 31

RECURSIVE DaysBeforeMonth(_, _)
DaysBeforeMonth(m, y) ==
    IF m = 1 THEN 0 ELSE DaysBeforeMonth(m - 1, y) + DaysInMonth(m - 1, y)

Ordinal(d, m, y) ==
    365 * (y - 1) + ((y - 1) \div 4) - ((y - 1) \div 100) + ((y - 1) \div 400)
    + DaysBeforeMonth(m, y) + d

NaT == [nat |-> TRUE, ord |-> 0]

\* errors='coerce': a string that is no valid date becomes NaT
to_datetime(raw) ==
    IF raw[2] \in 1..12 /\ raw[1] \in 1..DaysInMonth(raw[2], raw[3])
    THEN [nat |-> FALSE, ord |-> Ordinal(raw[1], raw[2], raw[3])]
    ELSE NaT

\* Monday = 0 .. Sunday = 6
Weekday(ord) == (ord + 6) % 7

\* The string 'NaT' that astype(str) makes of a missing period.
NaTWeek == [nat |-> TRUE, start |-> 0]

\* to_period('W-MON').astype(str): the week ending on the Monday on or after
\* the date, named 'start/end'; here named by the ordinal of its first day
\* (a Tuesday).  A NaT date gives the string 'NaT', which is not a missing
\* value.
week_of(date) ==
    IF date.nat THEN NaTWeek
    ELSE LET end == date.ord + ((7 - Weekday(date.ord)) % 7)
         IN [nat |-> FALSE, start |-> end - 6]

\* Order of the week strings: zero-padded ISO dates sort chronologically, and
\* 'NaT' sorts after every digit.
WeekLess(a, b) ==
    IF a.nat THEN FALSE
    ELSE IF b.nat THEN TRUE ELSE a.start < b.start

(***************************************************************************)
(* The inputs load_data reads.                                             *)
(***************************************************************************)
\* 06-01-2025 is a Monday (the last day of a week), 07-01-2025 and 13-01-2025
\* are the first and the last day of the next week, 31-02-2025 is no date.
RawDates == {<<6, 1, 2025>>, <<7, 1, 2025>>, <<13, 1, 2025>>, <<31, 2, 2025>>}

Pincodes == {560001, 110001}

\* reported <<state, district>>
ReportedLabels == {<<"S1", "A">>, <<"S2", "A">>}

\* <<age_0_5, age_5_17, age_18_greater>> of an enrolment row.  read_csv checks
\* no value: a count column can hold a negative number.
EnrolCounts == {<<0, 0, 0>>, <<1, 2, 3>>, <<0, 0, -1>>}

EnrolEvents ==
    {[date |-> dt, pincode |-> p, state |-> l[1], district |-> l[2],
      age_0_5 |-> c[1], age_5_17 |-> c[2], age_18_greater |-> c[3]] :
        dt \in RawDates, p \in Pincodes, l \in ReportedLabels,
        c \in EnrolCounts}

DemoEvents ==
    {[date |-> dt, pincode |-> p, state |-> l[1], district |-> l[2],
      demo_age_5_17 |-> c[1], demo_age_17_ |-> c[2]] :
        dt \in RawDates, p \in Pincodes, l \in ReportedLabels,
        c \in {<<0, 0>>, <<2, 1>>}}

\* read_csv reads an empty cell as NaN: a biometric row can lack its district
BioLabels == ReportedLabels \cup {<<"S1", NaNLabel>>}

BioEvents ==
    {[date |-> dt, pincode |-> p, state |-> l[1], district |-> l[2],
      bio_age_5_17 |-> c[1], bio_age_17_ |-> c[2]] :
        dt \in RawDates, p \in Pincodes, l \in BioLabels,
        c \in {<<0, 0>>, <<1, 1>>}}

\* Reference files, rows <<first, second, third column>> as read: labels not
\* yet normalised, a postal code listed twice.
RefTables ==
    { << <<560001, " a", "s1 ">>, <<560001, "B", "S2">> >>,
      << <<560001, "B", "S2">> >> }

\* no second processor
NoTwin == [pc |-> "none", ews_data |-> <<>>]

(***************************************************************************)
(* Initial state: the processor as constructed.                            *)
(***************************************************************************)
Init ==
    /\ pc = "load_data"
    /\ error = "none"
    /\ enrolment_df = <<>>
    /\ demographic_df = <<>>
    /\ biometric_df = <<>>
    /\ pincode_ref = <<>>
    /\ ews_data = <<>>
    /\ weights = <<>>
    /\ files = {}
    /\ geo_log = <<>>
    /\ forest = <<>>
    /\ pending = {}
    /\ twin = NoTwin

(***************************************************************************)
(* Phase 1: load_data, parse_dates.                                        *)
(***************************************************************************)
load_data ==
    /\ pc = "load_data"
    /\ \E ne \in 0..MaxEvents :
         \E nd \in 0..(MaxEvents - ne) :
           \E nb \in 0..(MaxEvents - ne - nd) :
             \E e \in [1..ne -> EnrolEvents], d \in [1..nd -> DemoEvents],
                b \in [1..nb -> BioEvents], r \in RefTables :
               /\ enrolment_df' = e
               /\ demographic_df' = d
               /\ biometric_df' = b
               /\ pincode_ref' = r
    /\ pc' = "parse_dates"
    /\ UNCHANGED <<error, ews_data, weights, files, geo_log, forest, pending, twin>>

parse_column(df) == [i \in DOMAIN df |-> [df[i] EXCEPT !.date = to_datetime(@)]]

parse_dates ==
    /\ pc = "parse_dates"
    /\ enrolment_df' = parse_column(enrolment_df)
    /\ demographic_df' = parse_column(demographic_df)
    /\ biometric_df' = parse_column(biometric_df)
    /\ pc' = "canonicalize_geography"
    /\ UNCHANGED <<error, pincode_ref, ews_data, weights, files, geo_log, forest, pending, twin>>

(***************************************************************************)
(* Phase 2: canonicalize_geography.                                        *)
(***************************************************************************)
\* .str.strip().str.upper() on the labels that occur
strip_upper(s) ==
    CASE s = " a" -> "A"
      [] s = "s1 " -> "S1"
      [] OTHER -> s

\* columns = ['pincode', 'district', 'state'], the labels normalised, and
\* drop_duplicates(subset=['pincode']), which keeps the first row of a code
RECURSIVE drop_duplicates_from(_, _)
drop_duplicates_from(t, i) ==
    IF i > Len(t) THEN <<>>
    ELSE (IF \E j \in 1..(i - 1) : t[j].pincode = t[i].pincode
          THEN <<>> ELSE <<t[i]>>) \o drop_duplicates_from(t, i + 1)

clean_pincode_ref(raw) ==
    LET named == [i \in DOMAIN raw |->
                    [pincode |-> raw[i][1],
                     district |-> strip_upper(raw[i][2]),
                     state |-> strip_upper(raw[i][3])]]
    IN drop_duplicates_from(named, 1)

\* df.merge(pincode_ref, on='pincode', how='left', suffixes=('_original', ''))
merge_pincode(df, ref) ==
    [i \in DOMAIN df |->
        LET hits == {j \in DOMAIN ref : ref[j].pincode = df[i].pincode}
            hit == CHOOSE j \in hits : TRUE
        IN [row |-> df[i],
            state_original |-> df[i].state,
            district_original |-> df[i].district,
            state |-> IF hits = {} THEN NaNLabel ELSE ref[hit].state,
            district |-> IF hits = {} THEN NaNLabel ELSE ref[hit].district]]

fillna(value, other) == IF value = NaNLabel THEN other ELSE value

\* The frame the local name df of _apply_canonicalization is bound to when it
\* returns: the merge, the two fillna and the drop of the _original columns.
\* df.merge returns a new frame, so the caller's table is not this one.
apply_canonicalization(df, ref) ==
    LET merged == merge_pincode(df, ref)
    IN [i \in DOMAIN df |->
          [merged[i].row EXCEPT
             !.state = fillna(merged[i].state, merged[i].state_original),
             !.district = fillna(merged[i].district, merged[i].district_original)]]

nunique(df, col) == Cardinality({df[i][col] : i \in DOMAIN df} \ {NaNLabel})

\* what _apply_canonicalization logs
canonicalization_log(df, ref) ==
    LET merged == merge_pincode(df, ref)
        local == apply_canonicalization(df, ref)
    IN [original_states |-> nunique(df, "state"),
        original_districts |-> nunique(df, "district"),
        missing_pins |-> Cardinality({merged[i].row.pincode :
                              i \in {j \in DOMAIN merged : merged[j].state = NaNLabel}}),
        new_states |-> nunique(local, "state"),
        new_districts |-> nunique(local, "district")]

canonicalize_geography ==
    /\ pc = "canonicalize_geography"
    /\ LET ref == clean_pincode_ref(pincode_ref)
       IN /\ pincode_ref' = ref
          /\ geo_log' = [Enrolment |-> canonicalization_log(enrolment_df, ref),
                         Demographic |-> canonicalization_log(demographic_df, ref),
                         Biometric |-> canonicalization_log(biometric_df, ref)]
    /\ pc' = "aggregate_weekly"
    /\ UNCHANGED <<error, enrolment_df, demographic_df, biometric_df, ews_data,
                   weights, files, forest, pending, twin>>

(***************************************************************************)
(* Phase 3: aggregate_weekly.                                              *)
(***************************************************************************)
add_week(df) == [i \in DOMAIN df |-> [week |-> week_of(df[i].date)] @@ df[i]]

key_of(row) == <<row.week, row.state, row.district>>

\* groupby(['week', 'state', 'district']): the groups' keys.  groupby drops the
\* rows with a missing key value (dropna=True); the string 'NaT' is a value.
group_keys(df) ==
    {key_of(df[i]) : i \in {j \in DOMAIN df :
                               df[j].state # NaNLabel /\ df[j].district # NaNLabel}}

\* .agg({col: 'first'}) of one group: the value of its first row
group_first(df, key, col) ==
    LET grp == {i \in DOMAIN df : key_of(df[i]) = key}
    IN df[CHOOSE i \in grp : \A j \in grp : i <= j][col]

\* .agg({col: 'sum'}) of one group
group_sum(df, key, col) ==
    SumSet({i \in DOMAIN df : key_of(df[i]) = key}, [i \in DOMAIN df |-> df[i][col]])

\* enrol_total taken over two of the three brackets
enrol_weekly_two_brackets(df) ==
    [key \in group_keys(df) |->
        LET a == group_sum(df, key, "age_0_5")
            b == group_sum(df, key, "age_5_17")
            c == group_sum(df, key, "age_18_greater")
        IN [enrol_age_0_5 |-> a, enrol_age_5_17 |-> b, enrol_age_18_plus |-> c,
            enrol_total |-> a + b]]

enrol_weekly(df) ==
    [key \in group_keys(df) |->
        LET a == group_sum(df, key, "age_0_5")
            b == group_sum(df, key, "age_5_17")
            c == group_sum(df, key, "age_18_greater")
        IN [enrol_age_0_5 |-> a, enrol_age_5_17 |-> b, enrol_age_18_plus |-> c,
            enrol_total |-> a + b + c]]

demo_weekly(df) ==
    [key \in group_keys(df) |->
        LET a == group_sum(df, key, "demo_age_5_17")
            b == group_sum(df, key, "demo_age_17_")
        IN [demo_age_5_17 |-> a, demo_age_18_plus |-> b, demo_total |-> a + b]]

bio_weekly(df) ==
    [key \in group_keys(df) |->
        LET a == group_sum(df, key, "bio_age_5_17")
            b == group_sum(df, key, "bio_age_17_")
        IN [bio_age_5_17 |-> a, bio_age_18_plus |-> b, bio_total |-> a + b]]

LabelLess(a, b) == LabelRank(a) < LabelRank(b)

\* lexicographic order of <<week, state, district>>
KeyLess(a, b) ==
    \/ WeekLess(a[1], b[1])
    \/ a[1] = b[1] /\ LabelLess(a[2], b[2])
    \/ a[1] = b[1] /\ a[2] = b[2] /\ LabelLess(a[3], b[3])

RECURSIVE SortKeys(_)
SortKeys(S) ==
    IF S = {} THEN <<>>
    ELSE LET m == CHOOSE x \in S : \A y \in S \ {x} : KeyLess(x, y)
         IN <<m>> \o SortKeys(S \ {m})

\* A cell of the outer merge after fillna(0).astype(int): the aggregate's value
\* where the stream has the key, 0 where the join left it missing.
merged_cell(weekly, key, col) ==
    IF key \in DOMAIN weekly THEN weekly[key][col] ELSE 0

\* the merges taken with how='left': the keys of enrol_weekly only
merge_weekly_left(ew, dw, bw) ==
    LET keys == SortKeys(DOMAIN ew)
    IN [i \in DOMAIN keys |->
          LET k == keys[i]
          IN [week |-> k[1], state |-> k[2], district |-> k[3],
              enrol_age_0_5 |-> merged_cell(ew, k, "enrol_age_0_5"),
              enrol_age_5_17 |-> merged_cell(ew, k, "enrol_age_5_17"),
              enrol_age_18_plus |-> merged_cell(ew, k, "enrol_age_18_plus"),
              enrol_total |-> merged_cell(ew, k, "enrol_total"),
              demo_age_5_17 |-> merged_cell(dw, k, "demo_age_5_17"),
              demo_age_18_plus |-> merged_cell(dw, k, "demo_age_18_plus"),
              demo_total |-> merged_cell(dw, k, "demo_total"),
              bio_age_5_17 |-> merged_cell(bw, k, "bio_age_5_17"),
              bio_age_18_plus |-> merged_cell(bw, k, "bio_age_18_plus"),
              bio_total |-> merged_cell(bw, k, "bio_total")]]

\* enrol_weekly.merge(demo_weekly, how='outer').merge(bio_weekly, how='outer'),
\* fillna(0), astype(int); an outer merge sorts the keys lexicographically
merge_weekly(ew, dw, bw) ==
    LET keys == SortKeys(DOMAIN ew \cup DOMAIN dw \cup DOMAIN bw)
    IN [i \in DOMAIN keys |->
          LET k == keys[i]
          IN [week |-> k[1], state |-> k[2], district |-> k[3],
              enrol_age_0_5 |-> merged_cell(ew, k, "enrol_age_0_5"),
              enrol_age_5_17 |-> merged_cell(ew, k, "enrol_age_5_17"),
              enrol_age_18_plus |-> merged_cell(ew, k, "enrol_age_18_plus"),
              enrol_total |-> merged_cell(ew, k, "enrol_total"),
              demo_age_5_17 |-> merged_cell(dw, k, "demo_age_5_17"),
              demo_age_18_plus |-> merged_cell(dw, k, "demo_age_18_plus"),
              demo_total |-> merged_cell(dw, k, "demo_total"),
              bio_age_5_17 |-> merged_cell(bw, k, "bio_age_5_17"),
              bio_age_18_plus |-> merged_cell(bw, k, "bio_age_18_plus"),
              bio_total |-> merged_cell(bw, k, "bio_total")]]

aggregate_weekly ==
    /\ pc = "aggregate_weekly"
    /\ enrolment_df' = add_week(enrolment_df)
    /\ demographic_df' = add_week(demographic_df)
    /\ biometric_df' = add_week(biometric_df)
    /\ ews_data' = merge_weekly(enrol_weekly(add_week(enrolment_df)),
                                demo_weekly(add_week(demographic_df)),
                                bio_weekly(add_week(biometric_df)))
    /\ pc' = "compute_severity_scores"
    /\ UNCHANGED <<error, pincode_ref, weights, files, geo_log, forest, pending, twin>>

(***************************************************************************)
(* Phase 4: compute_severity_scores.                                       *)
(***************************************************************************)
total_cols == <<"enrol_total", "demo_total", "bio_total">>

column(t, col) == [i \in DOMAIN t |-> t[i][col]]

\* Series.mean(): NaN for an empty column
mean_val(t, col) ==
    IF Len(t) = 0 THEN NaN ELSE Rat(SumSeq(column(t, col)), Len(t))

\* Series.std(): the sample standard deviation (ddof = 1), NaN with fewer
\* than two rows; the square root is rounded down to 1/CvScale.
std_val(t, col) ==
    LET n == Len(t)
        s == SumSeq(column(t, col))
        sq == SumSeq([i \in DOMAIN t |-> t[i][col] * t[i][col]])
    IN IF n < 2 THEN NaN
       ELSE Rat(ISqrt((CvScale * CvScale * (n * sq - s * s)) \div (n * (n - 1))),
                CvScale)

\* cv = std_val / mean_val if mean_val > 0 else 0
cv_of(t, col) ==
    IF RGt(mean_val(t, col), RInt(0))
    THEN RDiv(std_val(t, col), mean_val(t, col))
    ELSE RInt(0)

\* The else branch gives the Python int 0, the then branch a numpy float.
cv_is_int(t, col) == ~RGt(mean_val(t, col), RInt(0))

\* cvs = {col: cv}
cvs_of(t) == [k \in DOMAIN total_cols |-> cv_of(t, total_cols[k])]

\* total_cv = sum(cvs.values())
total_cv(cvs) == RAdd(RAdd(cvs[1], cvs[2]), cvs[3])

\* v / total_cv raises ZeroDivisionError when both are Python ints, which is
\* when every cv is the int 0; a numpy float 0.0 in the sum makes the
\* quotient nan instead.
weights_raise(t) == \A k \in DOMAIN total_cols : cv_is_int(t, total_cols[k])

\* weights left as the raw coefficients of variation, not divided by their sum
weights_unnormalised(t) == cvs_of(t)

\* weights = {k: v / total_cv for k, v in cvs.items()}
weights_of(t) ==
    LET cvs == cvs_of(t)
        total == total_cv(cvs)
    IN [k \in DOMAIN total_cols |-> RDiv(cvs[k], total)]

\* the rank taken in descending order (ascending=False)
pct_rank_descending(t, i, col) ==
    LET grp == {j \in DOMAIN t : t[j].week = t[i].week}
        more == Cardinality({j \in grp : t[j][col] > t[i][col]})
        equal == Cardinality({j \in grp : t[j][col] = t[i][col]})
    IN RMul(Rat(2 * more + equal + 1, 2 * Cardinality(grp)), RInt(100))

\* groupby('week')[col].rank(pct=True) * 100: the average rank among the
\* rows of the week, over their number
pct_rank(t, i, col) ==
    LET grp == {j \in DOMAIN t : t[j].week = t[i].week}
        less == Cardinality({j \in grp : t[j][col] < t[i][col]})
        equal == Cardinality({j \in grp : t[j][col] = t[i][col]})
    IN RMul(Rat(2 * less + equal + 1, 2 * Cardinality(grp)), RInt(100))

severity_of(e_pct, d_pct, b_pct, w) ==
    RAdd(RAdd(RMul(e_pct, w[1]), RMul(d_pct, w[2])), RMul(b_pct, w[3]))

with_severity(t, w) ==
    [i \in DOMAIN t |->
        LET e == pct_rank(t, i, "enrol_total")
            d == pct_rank(t, i, "demo_total")
            b == pct_rank(t, i, "bio_total")
        IN [enrol_total_pct |-> e, demo_total_pct |-> d, bio_total_pct |-> b,
            severity_score |-> severity_of(e, d, b, w)] @@ t[i]]

compute_severity_scores ==
    /\ pc = "compute_severity_scores"
    /\ IF weights_raise(ews_data)
       THEN /\ pc' = "failed"
            /\ error' = "ZeroDivisionError"
            /\ UNCHANGED <<ews_data, weights, files>>
       ELSE /\ weights' = weights_of(ews_data)
            /\ files' = files \cup {"weight_justification.csv"}
            /\ ews_data' = with_severity(ews_data, weights')
            /\ pc' = "detect_anomalies"
            /\ UNCHANGED error
    /\ UNCHANGED <<enrolment_df, demographic_df, biometric_df, pincode_ref, geo_log, forest, pending, twin>>

(***************************************************************************)
(* Phase 5: detect_anomalies.                                              *)
(***************************************************************************)
entity_of(row) == <<row.state, row.district>>

entity_rows(t, ent) == {i \in DOMAIN t : entity_of(t[i]) = ent}

\* every district, whatever its number of rows
active_districts_all(t) == {entity_of(t[i]) : i \in DOMAIN t}

\* district_counts[district_counts >= 5].index
active_districts(t) ==
    {ent \in {entity_of(t[i]) : i \in DOMAIN t} :
        Cardinality(entity_rows(t, ent)) >= 5}

\* active_districts is the index of a groupby: sorted by (state, district)
EntLess(a, b) ==
    \/ LabelLess(a[1], b[1])
    \/ a[1] = b[1] /\ LabelLess(a[2], b[2])

RECURSIVE SortEnts(_)
SortEnts(S) ==
    IF S = {} THEN <<>>
    ELSE LET m == CHOOSE x \in S : \A y \in S \ {x} : EntLess(x, y)
         IN <<m>> \o SortEnts(S \ {m})

\* the rows of every district, whatever the mask
table_data(t, ent) ==
    [k \in DOMAIN t |-> <<t[k].enrol_total, t[k].demo_total, t[k].bio_total>>]

\* self.ews_data.loc[mask, ['enrol_total', 'demo_total', 'bio_total']].values:
\* the district's rows in table order
district_data(t, ent) ==
    LET own == SelectSeq(t, LAMBDA r : entity_of(r) = ent)
    IN [k \in DOMAIN own |-> <<own[k].enrol_total, own[k].demo_total, own[k].bio_total>>]

\* the place of row i among the rows of its district
position(t, i) ==
    Cardinality({j \in entity_rows(t, entity_of(t[i])) : j <= i})

\* self.ews_data['anomaly_score'] = 0; self.ews_data['is_anomaly'] = False
with_defaults(t) ==
    [i \in DOMAIN t |-> [anomaly_score |-> RInt(0), is_anomaly |-> FALSE] @@ t[i]]

\* IsolationForest(contamination=0.1, random_state=42).fit_predict(district_data)
\* is a function of district_data: 1 or -1 per row.  Which function is left
\* open: the first fit of an input draws any prediction vector, and forest
\* keeps it for every later fit of the same input.
PredsFor(data) == [DOMAIN data -> {1, -1}]

FitChoices(datas) ==
    LET new == datas \ DOMAIN forest
    IN {g \in [new -> UNION {PredsFor(d) : d \in new}] :
           \A d \in new : g[d] \in PredsFor(d)}

\* score_samples: a negative score, lower for the rows predicted -1
score_samples(pred) == IF pred = -1 THEN Rat(-3, 5) ELSE Rat(-2, 5)

\* the loop body with every other row set back to the defaults
fit_entity_reset(t, ent, f) ==
    LET anomaly_preds == f[district_data(t, ent)]
    IN [i \in DOMAIN t |->
          IF entity_of(t[i]) = ent
          THEN [anomaly_score |-> score_samples(anomaly_preds[position(t, i)]),
                is_anomaly |-> anomaly_preds[position(t, i)] = -1] @@ t[i]
          ELSE [anomaly_score |-> RInt(0), is_anomaly |-> FALSE] @@ t[i]]

\* the loop body for one district: fit on its rows, write its rows
fit_entity(t, ent, f) ==
    LET anomaly_preds == f[district_data(t, ent)]
    IN [i \in DOMAIN t |->
          IF entity_of(t[i]) = ent
          THEN [anomaly_score |-> score_samples(anomaly_preds[position(t, i)]),
                is_anomaly |-> anomaly_preds[position(t, i)] = -1] @@ t[i]
          ELSE t[i]]

RECURSIVE detect_loop(_, _, _)
detect_loop(t, ents, f) ==
    IF ents = <<>> THEN t
    ELSE detect_loop(fit_entity(t, Head(ents), f), Tail(ents), f)

\* the inputs the loop fits on
fitted_data(t) == {district_data(t, ent) : ent \in active_districts(t)}

\* detect_anomalies on table t with the fits f
detect_table(t, f) ==
    detect_loop(with_defaults(t), SortEnts(active_districts(t)), f)

detect_anomalies ==
    /\ pc = "detect_anomalies"
    /\ \E g \in FitChoices(fitted_data(ews_data)) :
          /\ forest' = g @@ forest
          /\ ews_data' = detect_table(ews_data, g @@ forest)
    /\ pc' = "compute_trends"
    /\ UNCHANGED <<error, enrolment_df, demographic_df, biometric_df, pincode_ref,
                   weights, files, geo_log, pending, twin>>

\* detect_anomalies step by step, the districts visited in any order
detect_begin ==
    /\ pc = "detect_anomalies"
    /\ ews_data' = with_defaults(ews_data)
    /\ pending' = active_districts(ews_data)
    /\ pc' = "detect_loop"
    /\ UNCHANGED <<error, enrolment_df, demographic_df, biometric_df, pincode_ref,
                   weights, files, geo_log, forest, twin>>

detect_entity ==
    /\ pc = "detect_loop"
    /\ \E ent \in pending :
          /\ \E g \in FitChoices({district_data(ews_data, ent)}) :
                /\ forest' = g @@ forest
                /\ ews_data' = fit_entity(ews_data, ent, g @@ forest)
          /\ pending' = pending \ {ent}
    /\ UNCHANGED <<pc, error, enrolment_df, demographic_df, biometric_df, pincode_ref,
                   weights, files, geo_log, twin>>

detect_end ==
    /\ pc = "detect_loop"
    /\ pending = {}
    /\ pc' = "compute_trends"
    /\ UNCHANGED <<error, enrolment_df, demographic_df, biometric_df, pincode_ref,
                   ews_data, weights, files, geo_log, forest, pending, twin>>

\* detect_anomalies of the second processor
twin_detect_anomalies ==
    /\ twin.pc = "detect_anomalies"
    /\ \E g \in FitChoices(fitted_data(twin.ews_data)) :
          /\ forest' = g @@ forest
          /\ twin' = [pc |-> "compute_trends",
                      ews_data |-> detect_table(twin.ews_data, g @@ forest)]
    /\ UNCHANGED <<pc, error, enrolment_df, demographic_df, biometric_df, pincode_ref,
                   ews_data, weights, files, geo_log, pending>>

(***************************************************************************)
(* Phase 6: compute_trends.                                                *)
(***************************************************************************)
\* lexicographic order of (state, district, week)
TrendLess(a, b) ==
    \/ LabelLess(a.state, b.state)
    \/ a.state = b.state /\ LabelLess(a.district, b.district)
    \/ a.state = b.state /\ a.district = b.district /\ WeekLess(a.week, b.week)

RECURSIVE SortRows(_)
SortRows(S) ==
    IF S = {} THEN <<>>
    ELSE LET m == CHOOSE x \in S : \A y \in S \ {x} : TrendLess(x, y)
         IN <<m>> \o SortRows(S \ {m})

\* sort_values(['state', 'district', 'week']); the key is unique per row
sort_values(t) == SortRows(Range(t))

\* the row before row i of the sorted table, whatever its group: a diff()
\* taken on the whole column instead of per (state, district) group
prev_in_table(t, i) == IF i > 1 THEN i - 1 ELSE 0

\* the row before row i in its (state, district) group of the sorted table,
\* 0 if row i is the group's first
prev_in_group(t, i) ==
    IF i > 1 /\ entity_of(t[i - 1]) = entity_of(t[i]) THEN i - 1 ELSE 0

\* groupby(['state', 'district'])['severity_score'].diff()
severity_score_change(t, i) ==
    IF prev_in_group(t, i) = 0 THEN NaN
    ELSE RSub(t[i].severity_score, t[prev_in_group(t, i)].severity_score)

\* the diff of the change with a missing earlier change taken as 0
severity_score_momentum_fill0(t, i) ==
    IF prev_in_group(t, i) = 0 THEN NaN
    ELSE LET before == severity_score_change(t, prev_in_group(t, i))
         IN RSub(severity_score_change(t, i),
                 IF IsNaN(before) THEN RInt(0) ELSE before)

\* groupby(['state', 'district'])['severity_score_change'].diff()
severity_score_momentum(t, i) ==
    IF prev_in_group(t, i) = 0 THEN NaN
    ELSE RSub(severity_score_change(t, i),
              severity_score_change(t, prev_in_group(t, i)))

RECURSIVE RSum(_, _)
RSum(S, f) ==
    IF S = {} THEN RInt(0)
    ELSE LET x == CHOOSE y \in S : TRUE IN RAdd(f[x], RSum(S \ {x}, f))

\* rolling(window=4, min_periods=2).mean() within the group: the mean of the
\* non-missing scores among the group's last four rows up to row i
severity_score_ma4(t, i) ==
    LET window == {j \in (i - 3)..i : j >= 1 /\ entity_of(t[j]) = entity_of(t[i])}
        valid == {j \in window : ~IsNaN(t[j].severity_score)}
    IN IF Cardinality(valid) < 2 THEN NaN
       ELSE RDiv(RSum(valid, [j \in valid |-> t[j].severity_score]),
                 RInt(Cardinality(valid)))

classify_trend(change, momentum_raw) ==
    IF IsNaN(change) THEN "insufficient_data"
    ELSE LET momentum == IF ~IsNaN(momentum_raw) THEN momentum_raw ELSE RInt(0)
         IN IF RGt(change, RInt(5)) /\ RGt(momentum, RInt(0)) THEN "accelerating_up"
            ELSE IF RGt(change, RInt(3)) THEN "rising"
            ELSE IF RGt(change, RInt(-3)) THEN "stable"
            ELSE IF RLt(change, RInt(-5)) /\ RLt(momentum, RInt(0)) THEN "accelerating_down"
            ELSE "declining"

\* the trend columns followed by a dropna on severity_score_change
with_trends_dropna(t) ==
    SelectSeq([i \in DOMAIN t |->
                  [severity_score_ma4 |-> severity_score_ma4(t, i),
                   severity_score_change |-> severity_score_change(t, i),
                   severity_score_momentum |-> severity_score_momentum(t, i),
                   severity_trend |-> classify_trend(severity_score_change(t, i),
                                                     severity_score_momentum(t, i))]
                  @@ t[i]],
              LAMBDA r : ~IsNaN(r.severity_score_change))

with_trends(t) ==
    [i \in DOMAIN t |->
        [severity_score_ma4 |-> severity_score_ma4(t, i),
         severity_score_change |-> severity_score_change(t, i),
         severity_score_momentum |-> severity_score_momentum(t, i),
         severity_trend |-> classify_trend(severity_score_change(t, i),
                                           severity_score_momentum(t, i))]
        @@ t[i]]

compute_trends ==
    /\ pc = "compute_trends"
    /\ ews_data' = with_trends(sort_values(ews_data))
    /\ pc' = "classify_risk"
    /\ UNCHANGED <<error, enrolment_df, demographic_df, biometric_df, pincode_ref,
                   weights, files, geo_log, forest, pending, twin>>

(***************************************************************************)
(* Phase 7: classify_risk, identify_dominant_signals, compute_data_quality.*)
(***************************************************************************)
\* the Critical threshold taken strictly (score > 90)
assign_risk_strict(score, trend, is_anomaly) ==
    IF RGt(score, RInt(90)) \/ (is_anomaly /\ trend \in {"accelerating_up", "rising"})
    THEN "Critical"
    ELSE IF RGe(score, RInt(75)) /\ trend \in {"accelerating_up", "rising"}
    THEN "Emerging_Risk"
    ELSE IF RGe(score, RInt(60)) \/ (is_anomaly /\ trend # "declining")
    THEN "Watchlist"
    ELSE "Stable"

\* the Emerging_Risk rule tested before the Critical rule
assign_risk_emerging_first(score, trend, is_anomaly) ==
    IF RGe(score, RInt(75)) /\ trend \in {"accelerating_up", "rising"}
    THEN "Emerging_Risk"
    ELSE IF RGe(score, RInt(90)) \/ (is_anomaly /\ trend \in {"accelerating_up", "rising"})
    THEN "Critical"
    ELSE IF RGe(score, RInt(60)) \/ (is_anomaly /\ trend # "declining")
    THEN "Watchlist"
    ELSE "Stable"

\* the Watchlist rule without its test of the trend
assign_risk_anomaly_any_trend(score, trend, is_anomaly) ==
    IF RGe(score, RInt(90)) \/ (is_anomaly /\ trend \in {"accelerating_up", "rising"})
    THEN "Critical"
    ELSE IF RGe(score, RInt(75)) /\ trend \in {"accelerating_up", "rising"}
    THEN "Emerging_Risk"
    ELSE IF RGe(score, RInt(60)) \/ is_anomaly
    THEN "Watchlist"
    ELSE "Stable"

assign_risk(score, trend, is_anomaly) ==
    IF RGe(score, RInt(90)) \/ (is_anomaly /\ trend \in {"accelerating_up", "rising"})
    THEN "Critical"
    ELSE IF RGe(score, RInt(75)) /\ trend \in {"accelerating_up", "rising"}
    THEN "Emerging_Risk"
    ELSE IF RGe(score, RInt(60)) \/ (is_anomaly /\ trend # "declining")
    THEN "Watchlist"
    ELSE "Stable"

classify_risk ==
    /\ pc = "classify_risk"
    /\ ews_data' = [i \in DOMAIN ews_data |->
                      [risk_category |-> assign_risk(ews_data[i].severity_score,
                                                     ews_data[i].severity_trend,
                                                     ews_data[i].is_anomaly)]
                      @@ ews_data[i]]
    /\ pc' = "identify_dominant_signals"
    /\ UNCHANGED <<error, enrolment_df, demographic_df, biometric_df, pincode_ref,
                   weights, files, geo_log, forest, pending, twin>>

\* max(a, b, c) of Python floats: the first argument unless a later one is
\* greater (every comparison with nan is false)
py_max3(a, b, c) ==
    LET m == IF RGt(b, a) THEN b ELSE a
    IN IF RGt(c, m) THEN c ELSE m

\* the equality chain taken from the last stream to the first
get_dominant_last(enrol_pct, demo_pct, bio_pct) ==
    LET max_pct == py_max3(enrol_pct, demo_pct, bio_pct)
    IN IF REq(max_pct, bio_pct) THEN "Biometric"
       ELSE IF REq(max_pct, demo_pct) THEN "Demographic"
       ELSE "Enrolment"

\* ==  on floats: nan equals nothing
get_dominant(enrol_pct, demo_pct, bio_pct) ==
    LET max_pct == py_max3(enrol_pct, demo_pct, bio_pct)
    IN IF REq(max_pct, enrol_pct) THEN "Enrolment"
       ELSE IF REq(max_pct, demo_pct) THEN "Demographic"
       ELSE "Biometric"

identify_dominant_signals ==
    /\ pc = "identify_dominant_signals"
    /\ ews_data' = [i \in DOMAIN ews_data |->
                      [dominant_signal |-> get_dominant(ews_data[i].enrol_total_pct,
                                                        ews_data[i].demo_total_pct,
                                                        ews_data[i].bio_total_pct)]
                      @@ ews_data[i]]
    /\ pc' = "compute_data_quality"
    /\ UNCHANGED <<error, enrolment_df, demographic_df, biometric_df, pincode_ref,
                   weights, files, geo_log, forest, pending, twin>>

positive(x) == IF x > 0 THEN 1 ELSE 0

data_completeness(row) ==
    RMul(Rat(positive(row.enrol_total) + positive(row.demo_total)
             + positive(row.bio_total), 3), RInt(100))

\* partial from 50 percent on
data_quality_flag_half(x) ==
    IF REq(x, RInt(100)) THEN "complete"
    ELSE IF RGe(x, RInt(50)) THEN "partial" ELSE "sparse"

data_quality_flag(x) ==
    IF REq(x, RInt(100)) THEN "complete"
    ELSE IF RGe(x, RInt(33)) THEN "partial" ELSE "sparse"

compute_data_quality ==
    /\ pc = "compute_data_quality"
    /\ ews_data' = [i \in DOMAIN ews_data |->
                      [data_completeness |-> data_completeness(ews_data[i]),
                       data_quality_flag |->
                           data_quality_flag(data_completeness(ews_data[i]))]
                      @@ ews_data[i]]
    /\ pc' = "save_outputs"
    /\ UNCHANGED <<error, enrolment_df, demographic_df, biometric_df, pincode_ref,
                   weights, files, geo_log, forest, pending, twin>>

(***************************************************************************)
(* save_outputs and the pipeline.                                          *)
(***************************************************************************)
\* to_csv either writes the file or raises OSError (the path cannot be
\* written, e.g. it names a directory); run_pipeline logs and re-raises
save_outputs ==
    /\ pc = "save_outputs"
    /\ \/ /\ files' = files \cup {"ews_weekly_district_enhanced.csv"}
          /\ pc' = "done"
          /\ UNCHANGED error
       \/ /\ pc' = "failed"
          /\ error' = "OSError"
          /\ UNCHANGED files
    /\ UNCHANGED <<enrolment_df, demographic_df, biometric_df, pincode_ref,
                   ews_data, weights, geo_log, forest, pending, twin>>

\* run_pipeline: the stages in order; an exception ends the run
Next ==
    \/ load_data
    \/ parse_dates
    \/ canonicalize_geography
    \/ aggregate_weekly
    \/ compute_severity_scores
    \/ detect_anomalies
    \/ compute_trends
    \/ classify_risk
    \/ identify_dominant_signals
    \/ compute_data_quality
    \/ save_outputs

Spec == Init /\ [][Next]_vars

(***************************************************************************)
(* The scoring stages on every small aggregated table.                     *)
(* aggregate_weekly can leave any table whose (week, state, district) keys *)
(* are unique and whose volumes are non-negative integers; the stages from *)
(* compute_severity_scores on read nothing but self.ews_data, so the event *)
(* tables are left empty here.                                             *)
(***************************************************************************)
\* Three regions reporting in the first week, one of them also in the second.
ScoreKeys ==
    LET w1 == week_of(to_datetime(<<6, 1, 2025>>))
        w2 == week_of(to_datetime(<<7, 1, 2025>>))
    IN {<<w1, "S1", "A">>, <<w1, "S1", "B">>, <<w1, "S2", "A">>, <<w2, "S1", "A">>}

\* <<enrol_total, demo_total, bio_total>> of a drawn region-week
ScoreTotals == (0..MaxTotal) \X (0..1) \X (0..1)

\* a region-week with the given stream totals, each held by its last bracket
aggregated_row(k, e, d, b) ==
    [week |-> k[1], state |-> k[2], district |-> k[3],
     enrol_age_0_5 |-> 0, enrol_age_5_17 |-> 0, enrol_age_18_plus |-> e,
     enrol_total |-> e,
     demo_age_5_17 |-> 0, demo_age_18_plus |-> d, demo_total |-> d,
     bio_age_5_17 |-> 0, bio_age_18_plus |-> b, bio_total |-> b]

\* the table of the region-weeks K with the stream totals f[k], in the key
\* order the outer merge leaves
aggregated_table(K, f) ==
    LET keys == SortKeys(K)
    IN [i \in DOMAIN keys |->
          aggregated_row(keys[i], f[keys[i]][1], f[keys[i]][2], f[keys[i]][3])]

InitScore ==
    /\ pc = "compute_severity_scores"
    /\ error = "none"
    /\ enrolment_df = <<>>
    /\ demographic_df = <<>>
    /\ biometric_df = <<>>
    /\ pincode_ref = <<>>
    /\ \E K \in SUBSET ScoreKeys :
          /\ K # {}
          /\ \E f \in [K -> ScoreTotals] :
                ews_data = aggregated_table(K, f)
    /\ weights = <<>>
    /\ files = {}
    /\ geo_log = <<>>
    /\ forest = <<>>
    /\ pending = {}
    /\ twin = NoTwin

NextScore ==
    \/ compute_severity_scores
    \/ detect_anomalies
    \/ compute_trends
    \/ classify_risk

SpecScore == InitScore /\ [][NextScore]_vars

(***************************************************************************)
(* Where the pipeline stands.                                              *)
(***************************************************************************)
Scored ==
    pc \in {"detect_anomalies", "compute_trends", "classify_risk",
            "identify_dominant_signals", "compute_data_quality", "save_outputs",
            "done"}

Trended ==
    pc \in {"classify_risk", "identify_dominant_signals", "compute_data_quality",
            "save_outputs", "done"}

Classified ==
    pc \in {"identify_dominant_signals", "compute_data_quality", "save_outputs",
            "done"}

Rows == DOMAIN ews_data

SameWeek(i, j) == ews_data[i].week = ews_data[j].week

SameEntity(i, j) == entity_of(ews_data[i]) = entity_of(ews_data[j])

pct_col(col) ==
    CASE col = "enrol_total" -> "enrol_total_pct"
      [] col = "demo_total" -> "demo_total_pct"
      [] col = "bio_total" -> "bio_total_pct"

StreamCols == {"enrol_total", "demo_total", "bio_total"}

(***************************************************************************)
(* C2: after compute_severity_scores every row's severity score lies in    *)
(* [0, 100].                                                               *)
(***************************************************************************)
C2_SeverityInRange ==
    Scored =>
        \A i \in Rows :
            /\ RGe(ews_data[i].severity_score, RInt(0))
            /\ RLe(ews_data[i].severity_score, RInt(100))

(***************************************************************************)
(* C3: the three weights are non-negative and sum to 1.                    *)
(***************************************************************************)
C3_WeightsNormalised ==
    Scored =>
        /\ \A k \in DOMAIN weights : RGe(weights[k], RInt(0))
        /\ REq(RAdd(RAdd(weights[1], weights[2]), weights[3]), RInt(1))

(***************************************************************************)
(* C4: a stream whose mean total is zero gets weight zero, and weight      *)
(* estimation ends without a division fault.                               *)
(***************************************************************************)
C4_ZeroMeanZeroWeight ==
    (Scored \/ pc = "failed") =>
        \A k \in DOMAIN total_cols :
            REq(mean_val(ews_data, total_cols[k]), RInt(0)) =>
                /\ error # "ZeroDivisionError"
                /\ pc # "failed"
                /\ REq(weights[k], RInt(0))

(***************************************************************************)
(* C7 as stated: a region-week whose three stream totals are each the      *)
(* maximum of the stream in its week (ties included) has percentile 100 on *)
(* each stream, severity score 100 and risk category Critical.             *)
(***************************************************************************)
IsWeekMax(i, col) ==
    \A j \in Rows : SameWeek(i, j) => ews_data[j][col] <= ews_data[i][col]

IsStrictWeekMax(i, col) ==
    \A j \in Rows \ {i} : SameWeek(i, j) => ews_data[j][col] < ews_data[i][col]

HasWeekPeer(i) == \E j \in Rows \ {i} : SameWeek(i, j)

AllPct100(i) ==
    \A col \in StreamCols : REq(ews_data[i][pct_col(col)], RInt(100))

IsFirstObservation(i) ==
    \A j \in Rows \ {i} :
        SameEntity(i, j) => WeekLess(ews_data[i].week, ews_data[j].week)

C8_FirstObservationInsufficient ==
    Trended =>
        \A i \in Rows :
            IsFirstObservation(i) => ews_data[i].severity_trend = "insufficient_data"

\* two entities, one of them with a later row that did get a trend
W8_FirstAndLaterObservation ==
    /\ Trended
    /\ \E i, j, k \in Rows :
          /\ SameEntity(i, j) /\ IsFirstObservation(i) /\ i # j
          /\ ews_data[i].severity_trend = "insufficient_data"
          /\ ews_data[j].severity_trend # "insufficient_data"
          /\ ~SameEntity(i, k)

(***************************************************************************)
(* C9: every row that is not its entity's first observation carries the    *)
(* label of the first matching rule of the trend table, for change = its   *)
(* score minus the entity's previous score and momentum = change minus the *)
(* previous change (0 when there is none).                                 *)
(***************************************************************************)
\* the entity's row of the latest earlier week, 0 if there is none
PreviousObservation(i) ==
    LET earlier == {j \in Rows : SameEntity(i, j)
                        /\ WeekLess(ews_data[j].week, ews_data[i].week)}
    IN IF earlier = {} THEN 0
       ELSE CHOOSE j \in earlier :
              \A k \in earlier \ {j} : WeekLess(ews_data[k].week, ews_data[j].week)

ChangeOf(i) ==
    RSub(ews_data[i].severity_score, ews_data[PreviousObservation(i)].severity_score)

MomentumOf(i) ==
    IF PreviousObservation(PreviousObservation(i)) = 0 THEN RInt(0)
    ELSE RSub(ChangeOf(i), ChangeOf(PreviousObservation(i)))

TrendTable(change, momentum) ==
    CASE RGt(change, RInt(5)) /\ RGt(momentum, RInt(0)) -> "accelerating_up"
      [] ~(RGt(change, RInt(5)) /\ RGt(momentum, RInt(0))) /\ RGt(change, RInt(3))
            -> "rising"
      [] ~RGt(change, RInt(3)) /\ RGt(change, RInt(-3)) -> "stable"
      [] ~RGt(change, RInt(-3)) /\ RLt(change, RInt(-5)) /\ RLt(momentum, RInt(0))
            -> "accelerating_down"
      [] OTHER -> "declining"

C9_TrendRuleTable ==
    Trended =>
        \A i \in Rows :
            PreviousObservation(i) # 0 =>
                ews_data[i].severity_trend = TrendTable(ChangeOf(i), MomentumOf(i))

(***************************************************************************)
(* C10: within a week and a stream, a strictly higher total never has a    *)
(* lower percentile, equal totals have equal percentiles, and every        *)
(* percentile lies in (0, 100].                                            *)
(***************************************************************************)
C10_PercentileMonotone ==
    Scored =>
        \A col \in StreamCols :
            \A i, j \in Rows :
                /\ RGt(ews_data[i][pct_col(col)], RInt(0))
                /\ RLe(ews_data[i][pct_col(col)], RInt(100))
                /\ SameWeek(i, j) /\ ews_data[i][col] > ews_data[j][col]
                      => ~RLt(ews_data[i][pct_col(col)], ews_data[j][pct_col(col)])
                /\ SameWeek(i, j) /\ ews_data[i][col] = ews_data[j][col]
                      => REq(ews_data[i][pct_col(col)], ews_data[j][pct_col(col)])

\* a week with two regions, one stream differing and another tied
W10_HigherAndTied ==
    /\ Scored
    /\ \E i, j \in Rows :
          /\ i # j /\ SameWeek(i, j)
          /\ ews_data[i].enrol_total > ews_data[j].enrol_total
          /\ RGt(ews_data[i].enrol_total_pct, ews_data[j].enrol_total_pct)
          /\ ews_data[i].demo_total = ews_data[j].demo_total

(***************************************************************************)
(* classify_risk on drawn rows.  assign_risk reads three columns of its    *)
(* row; the table is one region's five weeks, whose first and last row     *)
(* carry every combination of score, trend label and anomaly flag the      *)
(* earlier stages can leave there.  A NaN score comes from NaN weights,    *)
(* which make every score NaN and every trend insufficient_data.           *)
(***************************************************************************)
TrendLabels ==
    {"accelerating_up", "rising", "stable", "accelerating_down", "declining",
     "insufficient_data"}

RiskScores == {40, 59, 60, 65, 74, 75, 80, 89, 90, 95}

risk_row(n, score, trend, is_anomaly) ==
    [week |-> [nat |-> FALSE, start |-> 739251 + 7 * n], state |-> "S1",
     district |-> "A", severity_score |-> score, severity_trend |-> trend,
     is_anomaly |-> is_anomaly]

InitRisk ==
    /\ pc = "classify_risk"
    /\ error = "none"
    /\ enrolment_df = <<>>
    /\ demographic_df = <<>>
    /\ biometric_df = <<>>
    /\ pincode_ref = <<>>
    /\ \E a1, a5 \in BOOLEAN :
          \/ \E s1, s5 \in RiskScores, t5 \in TrendLabels \ {"insufficient_data"} :
                ews_data = << risk_row(0, RInt(s1), "insufficient_data", a1),
                              risk_row(1, RInt(65), "declining", FALSE),
                              risk_row(2, RInt(50), "stable", FALSE),
                              risk_row(3, RInt(50), "stable", FALSE),
                              risk_row(4, RInt(s5), t5, a5) >>
          \/ ews_data = << risk_row(0, NaN, "insufficient_data", a1),
                           risk_row(1, NaN, "insufficient_data", FALSE),
                           risk_row(2, NaN, "insufficient_data", FALSE),
                           risk_row(3, NaN, "insufficient_data", FALSE),
                           risk_row(4, NaN, "insufficient_data", a5) >>
    /\ weights = <<>>
    /\ files = {"weight_justification.csv"}
    /\ geo_log = <<>>
    /\ forest = <<>>
    /\ pending = {}
    /\ twin = NoTwin

NextRisk == classify_risk

SpecRisk == InitRisk /\ [][NextRisk]_vars

(***************************************************************************)
(* C1: every row's risk category is that of the first matching rule of the *)
(* risk table, a function of (severity score, trend label, anomaly flag).  *)
(***************************************************************************)
RiskTable(score, trend, is_anomaly) ==
    LET up == trend = "accelerating_up" \/ trend = "rising"
        rule1 == RGe(score, RInt(90)) \/ (is_anomaly /\ up)
        rule2 == RGe(score, RInt(75)) /\ up
        rule3 == RGe(score, RInt(60)) \/ (is_anomaly /\ trend # "declining")
    IN CASE rule1 -> "Critical"
         [] ~rule1 /\ rule2 -> "Emerging_Risk"
         [] ~rule1 /\ ~rule2 /\ rule3 -> "Watchlist"
         [] ~rule1 /\ ~rule2 /\ ~rule3 -> "Stable"

RiskExample(row, score, trend, is_anomaly, category) ==
    (REq(row.severity_score, RInt(score)) /\ row.severity_trend = trend
        /\ row.is_anomaly = is_anomaly) => row.risk_category = category

C1_RiskTable ==
    Classified =>
        \A i \in Rows :
            /\ ews_data[i].risk_category =
                   RiskTable(ews_data[i].severity_score, ews_data[i].severity_trend,
                             ews_data[i].is_anomaly)
            /\ RiskExample(ews_data[i], 95, "stable", FALSE, "Critical")
            /\ RiskExample(ews_data[i], 80, "rising", FALSE, "Emerging_Risk")
            /\ RiskExample(ews_data[i], 65, "declining", TRUE, "Watchlist")
            /\ RiskExample(ews_data[i], 40, "stable", FALSE, "Stable")

\* one table holding all four categories, one of them at a threshold
W1_AllCategories ==
    /\ Classified
    /\ \A c \in {"Critical", "Emerging_Risk", "Watchlist", "Stable"} :
          \E i \in Rows : ews_data[i].risk_category = c
    /\ \E i \in Rows : REq(ews_data[i].severity_score, RInt(90))
                          /\ ews_data[i].risk_category = "Critical"

(***************************************************************************)
(* C5: after canonicalize_geography every event row whose postal code is   *)
(* in the reference carries the reference's (state, district), and every   *)
(* other row its reported labels.                                          *)
(***************************************************************************)
Canonicalized(before, after, ref) ==
    /\ Len(after) = Len(before)
    /\ \A i \in DOMAIN before :
          LET hits == {j \in DOMAIN ref : ref[j].pincode = before[i].pincode}
          IN IF hits = {}
             THEN after[i].state = before[i].state
                  /\ after[i].district = before[i].district
             ELSE \E j \in hits : after[i].state = ref[j].state
                                     /\ after[i].district = ref[j].district

C5_EventsCanonicalized ==
    [][pc = "canonicalize_geography" =>
          /\ Canonicalized(enrolment_df, enrolment_df', pincode_ref')
          /\ Canonicalized(demographic_df, demographic_df', pincode_ref')
          /\ Canonicalized(biometric_df, biometric_df', pincode_ref')]_vars

(***************************************************************************)
(* C6: an event row whose date cannot be parsed contributes to no          *)
(* region-week: no output row has the week of a null date, every total     *)
(* leaves such rows out, and no error is raised by the aggregation.        *)
(***************************************************************************)
Aggregated ==
    pc \notin {"load_data", "parse_dates", "canonicalize_geography", "aggregate_weekly"}

\* the sum of the columns cols over the rows of df with a parsed date and
\* the key of output row r
DatedSum(df, r, cols) ==
    SumSet({i \in DOMAIN df : ~df[i].date.nat /\ key_of(df[i]) = key_of(r)},
           [i \in DOMAIN df |-> SumSet(cols, [c \in cols |-> df[i][c]])])

C6_UnparseableDatesExcluded ==
    Aggregated =>
        \A i \in Rows :
            /\ ews_data[i].week # NaTWeek
            /\ ews_data[i].enrol_total =
                  DatedSum(enrolment_df, ews_data[i],
                           {"age_0_5", "age_5_17", "age_18_greater"})
            /\ ews_data[i].demo_total =
                  DatedSum(demographic_df, ews_data[i], {"demo_age_5_17", "demo_age_17_"})
            /\ ews_data[i].bio_total =
                  DatedSum(biometric_df, ews_data[i], {"bio_age_5_17", "bio_age_17_"})

(***************************************************************************)
(* aggregate_weekly on every small set of parsed event tables.             *)
(* The event rows are those load_data reads under one postal code and one  *)
(* reference file; parse_dates and canonicalize_geography have run.        *)
(***************************************************************************)
\* the two weeks and the date that is none
AggDates == {<<6, 1, 2025>>, <<7, 1, 2025>>, <<31, 2, 2025>>}

AggEvents(events) == {e \in events : e.date \in AggDates /\ e.pincode = 560001}

AggRef == clean_pincode_ref(<< <<560001, "B", "S2">> >>)

InitAggregate ==
    /\ pc = "aggregate_weekly"
    /\ error = "none"
    /\ \E ne \in 0..MaxEvents :
         \E nd \in 0..(MaxEvents - ne) :
           \E nb \in 0..(MaxEvents - ne - nd) :
             \E e \in [1..ne -> AggEvents(EnrolEvents)],
                d \in [1..nd -> AggEvents(DemoEvents)],
                b \in [1..nb -> AggEvents(BioEvents)] :
               /\ enrolment_df = parse_column(e)
               /\ demographic_df = parse_column(d)
               /\ biometric_df = parse_column(b)
               /\ geo_log = [Enrolment |-> canonicalization_log(parse_column(e), AggRef),
                             Demographic |-> canonicalization_log(parse_column(d), AggRef),
                             Biometric |-> canonicalization_log(parse_column(b), AggRef)]
    /\ pincode_ref = AggRef
    /\ ews_data = <<>>
    /\ weights = <<>>
    /\ files = {}
    /\ forest = <<>>
    /\ pending = {}
    /\ twin = NoTwin

NextAggregate == aggregate_weekly

SpecAggregate == InitAggregate /\ [][NextAggregate]_vars

(***************************************************************************)
(* C11: after aggregate_weekly no two output rows have the same (week,     *)
(* state, district), every key of a per-stream aggregate has exactly one   *)
(* output row, and that row's volumes of a stream with no event for the    *)
(* key are all zero.                                                       *)
(***************************************************************************)
EnrolVolumes == {"enrol_age_0_5", "enrol_age_5_17", "enrol_age_18_plus", "enrol_total"}
DemoVolumes == {"demo_age_5_17", "demo_age_18_plus", "demo_total"}
BioVolumes == {"bio_age_5_17", "bio_age_18_plus", "bio_total"}

RowsOfKey(k) == {i \in Rows : key_of(ews_data[i]) = k}

ZeroFilled(i, df, cols) ==
    key_of(ews_data[i]) \notin group_keys(df) => \A c \in cols : ews_data[i][c] = 0

C11_OneRowPerKey ==
    Aggregated =>
        /\ \A i, j \in Rows : key_of(ews_data[i]) = key_of(ews_data[j]) => i = j
        /\ \A k \in group_keys(enrolment_df) \cup group_keys(demographic_df)
                       \cup group_keys(biometric_df) :
              Cardinality(RowsOfKey(k)) = 1
        /\ \A i \in Rows :
              /\ ZeroFilled(i, enrolment_df, EnrolVolumes)
              /\ ZeroFilled(i, demographic_df, DemoVolumes)
              /\ ZeroFilled(i, biometric_df, BioVolumes)

\* two region-weeks, each covered by one stream only, the covered volume not zero
W11_OuterJoinFills ==
    /\ Aggregated
    /\ \E i, j \in Rows :
          /\ key_of(ews_data[i]) \in group_keys(enrolment_df)
          /\ key_of(ews_data[i]) \notin group_keys(demographic_df)
          /\ ews_data[i].enrol_total > 0
          /\ key_of(ews_data[j]) \in group_keys(demographic_df)
          /\ key_of(ews_data[j]) \notin group_keys(enrolment_df)
          /\ ews_data[j].demo_total > 0

(***************************************************************************)
(* C12: aggregate_weekly of the event tables with their rows in any other  *)
(* order gives the same set of region-week rows, sub-totals and totals     *)
(* included.                                                               *)
(***************************************************************************)
Perms(S) == {p \in [S -> S] : \A x \in S : \E y \in S : p[y] = x}

Permuted(df, p) == [i \in DOMAIN df |-> df[p[i]]]

JustAggregated == pc = "compute_severity_scores" /\ error = "none" /\ files = {}

C12_OrderIndependent ==
    JustAggregated =>
        \A p \in Perms(DOMAIN enrolment_df), q \in Perms(DOMAIN demographic_df),
           r \in Perms(DOMAIN biometric_df) :
            Range(merge_weekly(enrol_weekly(Permuted(enrolment_df, p)),
                               demo_weekly(Permuted(demographic_df, q)),
                               bio_weekly(Permuted(biometric_df, r))))
                = Range(ews_data)

\* two enrolment rows of one region-week with different counts
W12_TwoRowsOneKey ==
    /\ JustAggregated
    /\ Len(enrolment_df) = 2
    /\ key_of(enrolment_df[1]) = key_of(enrolment_df[2])
    /\ enrolment_df[1].age_18_greater # enrolment_df[2].age_18_greater
    /\ Len(ews_data) = 1

(***************************************************************************)
(* C13: in every output row each stream total is the sum of the stream's   *)
(* age-bracket sub-totals of the row.                                      *)
(***************************************************************************)
C13_TotalIsSumOfBrackets ==
    Aggregated =>
        \A i \in Rows :
            /\ ews_data[i].enrol_total =
                  ews_data[i].enrol_age_0_5 + ews_data[i].enrol_age_5_17
                  + ews_data[i].enrol_age_18_plus
            /\ ews_data[i].demo_total =
                  ews_data[i].demo_age_5_17 + ews_data[i].demo_age_18_plus
            /\ ews_data[i].bio_total =
                  ews_data[i].bio_age_5_17 + ews_data[i].bio_age_18_plus

\* a row with a three-bracket enrolment total and a zero-filled stream
W13_BracketsAndZeroFill ==
    /\ Aggregated
    /\ \E i \in Rows :
          /\ ews_data[i].enrol_age_0_5 > 0
          /\ ews_data[i].enrol_age_5_17 > 0
          /\ ews_data[i].enrol_age_18_plus > 0
          /\ key_of(ews_data[i]) \notin group_keys(demographic_df)
          /\ ews_data[i].demo_total = 0

(***************************************************************************)
(* C14: after aggregate_weekly every volume column of every output row is  *)
(* a non-negative integer.                                                 *)
(***************************************************************************)
C14_VolumesNonNegative ==
    Aggregated =>
        \A i \in Rows :
            \A c \in EnrolVolumes \cup DemoVolumes \cup BioVolumes :
                ews_data[i][c] \in Nat

(***************************************************************************)
(* detect_anomalies on tables with a district of five weeks.               *)
(* District (S1, A) reports in five weeks; district (S1, B) in none, two   *)
(* or five of them.  The tables are scored as compute_severity_scores      *)
(* leaves them.                                                            *)
(***************************************************************************)
\* five Mondays, each the last day of its W-MON week
EntityWeeks ==
    [k \in 1..5 |->
        week_of(to_datetime(<< <<6, 1>>, <<13, 1>>, <<20, 1>>, <<27, 1>>, <<3, 2>> >>[k]
                            \o <<2025>>))]

\* enrol_total of a district's weeks, first week first
APatterns == {<<1, 1, 1, 1, 2>>, <<1, 2, 1, 2, 3>>}

BPatterns == {<<>>, <<1, 2>>, <<1, 1, 1, 1, 2>>, <<2, 1, 2, 1, 1>>}

entity_table(ap, bp) ==
    LET K == {<<EntityWeeks[k], "S1", "A">> : k \in DOMAIN ap}
             \cup {<<EntityWeeks[k], "S1", "B">> : k \in DOMAIN bp}
        f == [key \in K |->
                LET k == CHOOSE n \in 1..5 : EntityWeeks[n] = key[1]
                IN <<IF key[3] = "A" THEN ap[k] ELSE bp[k], 1, 1>>]
    IN aggregated_table(K, f)

scored_table(t) == with_severity(t, weights_of(t))

InitAnomaly ==
    /\ pc = "detect_anomalies"
    /\ error = "none"
    /\ enrolment_df = <<>>
    /\ demographic_df = <<>>
    /\ biometric_df = <<>>
    /\ pincode_ref = <<>>
    /\ \E ap \in APatterns, bp, bp2 \in BPatterns :
          /\ ews_data = scored_table(entity_table(ap, bp))
          /\ weights = weights_of(entity_table(ap, bp))
          /\ twin = [pc |-> "detect_anomalies",
                     ews_data |-> scored_table(entity_table(ap, bp2))]
    /\ files = {"weight_justification.csv"}
    /\ geo_log = <<>>
    /\ forest = <<>>
    /\ pending = {}

NextAnomaly ==
    \/ detect_anomalies
    \/ twin_detect_anomalies

SpecAnomaly == InitAnomaly /\ [][NextAnomaly]_vars

(***************************************************************************)
(* The same tables, detect_anomalies taken district by district in any     *)
(* order, then compute_trends.                                             *)
(***************************************************************************)
InitEntities ==
    /\ pc = "compute_severity_scores"
    /\ error = "none"
    /\ enrolment_df = <<>>
    /\ demographic_df = <<>>
    /\ biometric_df = <<>>
    /\ pincode_ref = <<>>
    /\ \E ap \in APatterns, bp \in BPatterns : ews_data = entity_table(ap, bp)
    /\ weights = <<>>
    /\ files = {}
    /\ geo_log = <<>>
    /\ forest = <<>>
    /\ pending = {}
    /\ twin = NoTwin

NextEntities ==
    \/ compute_severity_scores
    \/ detect_begin
    \/ detect_entity
    \/ detect_end
    \/ compute_trends

SpecEntities == InitEntities /\ [][NextEntities]_vars

(***************************************************************************)
(* C15: after detect_anomalies every row of a district with fewer than 5   *)
(* rows has anomaly flag false and anomaly score 0, and the outlier model  *)
(* was fitted on inputs of at least 5 rows only.                           *)
(***************************************************************************)
Detected == pc \in {"compute_trends", "classify_risk"}

Entities(t) == {entity_of(t[i]) : i \in DOMAIN t}

C15_SmallDistrictsDefault ==
    Detected =>
        /\ \A i \in Rows :
              Cardinality(entity_rows(ews_data, entity_of(ews_data[i]))) < 5 =>
                 /\ ews_data[i].is_anomaly = FALSE
                 /\ REq(ews_data[i].anomaly_score, RInt(0))
        /\ \A data \in DOMAIN forest : Len(data) >= 5

\* a district of two rows beside a district of five rows with a flagged row
W15_SmallBesideFlagged ==
    /\ Detected
    /\ \E i, j \in Rows :
          /\ Cardinality(entity_rows(ews_data, entity_of(ews_data[i]))) = 2
          /\ Cardinality(entity_rows(ews_data, entity_of(ews_data[j]))) = 5
          /\ ews_data[j].is_anomaly

(***************************************************************************)
(* C16: two tables that agree on the rows of a district (keys and volumes) *)
(* and differ on the other districts give the district's rows the same     *)
(* anomaly flags and scores.                                               *)
(***************************************************************************)
VolumesOf(t, ent) ==
    LET own == SelectSeq(t, LAMBDA r : entity_of(r) = ent)
    IN [k \in DOMAIN own |->
          <<own[k].week, own[k].enrol_total, own[k].demo_total, own[k].bio_total>>]

AnomaliesOf(t, ent) ==
    LET own == SelectSeq(t, LAMBDA r : entity_of(r) = ent)
    IN [k \in DOMAIN own |-> <<own[k].week, own[k].is_anomaly, own[k].anomaly_score>>]

BothDetected == pc = "compute_trends" /\ twin.pc = "compute_trends"

C16_OwnRowsOnly ==
    BothDetected =>
        \A ent \in Entities(ews_data) \cap Entities(twin.ews_data) :
            VolumesOf(ews_data, ent) = VolumesOf(twin.ews_data, ent) =>
                AnomaliesOf(ews_data, ent) = AnomaliesOf(twin.ews_data, ent)

\* (S1, A) with a flagged row in two tables whose (S1, B), fitted in both, differs
W16_OtherDistrictDiffers ==
    /\ BothDetected
    /\ VolumesOf(ews_data, <<"S1", "A">>) = VolumesOf(twin.ews_data, <<"S1", "A">>)
    /\ \E i \in Rows : entity_of(ews_data[i]) = <<"S1", "A">> /\ ews_data[i].is_anomaly
    /\ <<"S1", "B">> \in active_districts(ews_data) \cap active_districts(twin.ews_data)
    /\ VolumesOf(ews_data, <<"S1", "B">>) # VolumesOf(twin.ews_data, <<"S1", "B">>)

(***************************************************************************)
(* C20: with the districts visited in any order, detect_anomalies leaves   *)
(* the table the sequential loop leaves, and compute_trends gives every    *)
(* district the trend columns it gives the district's rows taken alone.    *)
(***************************************************************************)
TrendsOf(t, ent) ==
    LET own == SelectSeq(t, LAMBDA r : entity_of(r) = ent)
    IN [k \in DOMAIN own |->
          <<own[k].week, own[k].severity_score_ma4, own[k].severity_score_change,
            own[k].severity_score_momentum, own[k].severity_trend>>]

C20_EntityOrderIndependent ==
    /\ Detected => ews_data = detect_table(ews_data, forest)
    /\ Trended =>
          \A ent \in Entities(ews_data) :
              TrendsOf(ews_data, ent) =
                  TrendsOf(with_trends(sort_values(
                               SelectSeq(ews_data, LAMBDA r : entity_of(r) = ent))), ent)

\* two fitted districts, each with a flagged row, and a district whose trend moves
W20_TwoDistrictsFitted ==
    /\ Trended
    /\ \A ent \in {<<"S1", "A">>, <<"S1", "B">>} :
          /\ ent \in active_districts(ews_data)
          /\ \E i \in Rows : entity_of(ews_data[i]) = ent /\ ews_data[i].is_anomaly
    /\ \E i \in Rows : ews_data[i].severity_trend \notin {"stable", "insufficient_data"}

(***************************************************************************)
(* C17: when a stage fails, the run has written no file: neither the main  *)
(* output nor the weights file.                                            *)
(***************************************************************************)
C17_NoPartialOutput == pc = "failed" => files = {}

(***************************************************************************)
(* identify_dominant_signals and compute_data_quality on drawn rows.       *)
(* get_dominant reads a row's three percentiles and compute_data_quality   *)
(* its three totals; the row carries every combination of the values drawn *)
(* for them.                                                               *)
(***************************************************************************)
\* percentiles rank(pct=True) * 100 gives in weeks of one to three regions
SignalPcts == {Rat(100, 3), RInt(50), RInt(75), RInt(100)}

\* a stream total: negative, zero, positive
SignalTotals == {-1, 0, 2}

signal_row(pcts, totals) ==
    [week |-> EntityWeeks[1], state |-> "S1", district |-> "A",
     enrol_total |-> totals[1], demo_total |-> totals[2], bio_total |-> totals[3],
     enrol_total_pct |-> pcts[1], demo_total_pct |-> pcts[2],
     bio_total_pct |-> pcts[3]]

InitSignals ==
    /\ pc = "identify_dominant_signals"
    /\ error = "none"
    /\ enrolment_df = <<>>
    /\ demographic_df = <<>>
    /\ biometric_df = <<>>
    /\ pincode_ref = <<>>
    /\ \E pcts \in SignalPcts \X SignalPcts \X SignalPcts,
          totals \in SignalTotals \X SignalTotals \X SignalTotals :
          ews_data = <<signal_row(pcts, totals)>>
    /\ weights = <<>>
    /\ files = {"weight_justification.csv"}
    /\ geo_log = <<>>
    /\ forest = <<>>
    /\ pending = {}
    /\ twin = NoTwin

NextSignals ==
    \/ identify_dominant_signals
    \/ compute_data_quality

SpecSignals == InitSignals /\ [][NextSignals]_vars

(***************************************************************************)
(* C18: the dominant signal is the stream with the highest of the row's    *)
(* three percentiles, the first of them in the order enrolment,            *)
(* demographic, biometric when several tie for the highest.                *)
(***************************************************************************)
SignalsIdentified == pc \in {"compute_data_quality", "save_outputs"}

ArgmaxByPriority(e, d, b) ==
    IF RGe(e, d) /\ RGe(e, b) THEN "Enrolment"
    ELSE IF RGe(d, e) /\ RGe(d, b) THEN "Demographic"
    ELSE "Biometric"

C18_DominantSignal ==
    SignalsIdentified =>
        \A i \in Rows :
            ews_data[i].dominant_signal =
                ArgmaxByPriority(ews_data[i].enrol_total_pct, ews_data[i].demo_total_pct,
                                 ews_data[i].bio_total_pct)

\* demographic and biometric tie for the highest, above enrolment
W18_TieBelowEnrolment ==
    /\ SignalsIdentified
    /\ \E i \in Rows :
          /\ REq(ews_data[i].demo_total_pct, ews_data[i].bio_total_pct)
          /\ RGt(ews_data[i].demo_total_pct, ews_data[i].enrol_total_pct)
          /\ ews_data[i].dominant_signal = "Demographic"

(***************************************************************************)
(* C19: completeness is the number of strictly positive stream totals over *)
(* 3, as a percentage; the flag is complete iff all three are positive,    *)
(* partial iff one or two are, sparse iff none is.                         *)
(***************************************************************************)
QualityComputed == pc = "save_outputs"

PositiveTotals(row) ==
    Cardinality({c \in {"enrol_total", "demo_total", "bio_total"} : row[c] > 0})

C19_CompletenessAndFlag ==
    QualityComputed =>
        \A i \in Rows :
            LET n == PositiveTotals(ews_data[i])
            IN /\ REq(RMul(ews_data[i].data_completeness, RInt(3)), RInt(100 * n))
               /\ ews_data[i].data_quality_flag = "complete" <=> n = 3
               /\ ews_data[i].data_quality_flag = "partial" <=> n \in {1, 2}
               /\ ews_data[i].data_quality_flag = "sparse" <=> n = 0

\* exactly one positive total, beside a zero and a negative one
W19_OnePositive ==
    /\ QualityComputed
    /\ \E i \in Rows :
          /\ ews_data[i].enrol_total = 0
          /\ ews_data[i].demo_total > 0
          /\ ews_data[i].bio_total < 0
          /\ ews_data[i].data_quality_flag = "partial"

(***************************************************************************)
(* Every stage after aggregate_weekly on the tables with a district of     *)
(* five weeks, each stage as run_pipeline calls it.                        *)
(***************************************************************************)
NextStages ==
    \/ compute_severity_scores
    \/ detect_anomalies
    \/ compute_trends
    \/ classify_risk
    \/ identify_dominant_signals
    \/ compute_data_quality
    \/ save_outputs

SpecStages == InitEntities /\ [][NextStages]_vars

(***************************************************************************)
(* C21: no stage after aggregate_weekly adds or removes a row or changes a *)
(* row's (week, state, district) or volume columns; a stage only adds or   *)
(* fills derived columns.                                                  *)
(***************************************************************************)
StagesAfterAggregation ==
    {"compute_severity_scores", "detect_anomalies", "compute_trends", "classify_risk",
     "identify_dominant_signals", "compute_data_quality", "save_outputs"}

KeptRows(old, new) ==
    /\ Len(new) = Len(old)
    /\ \A i \in DOMAIN old :
          \E j \in DOMAIN new :
             /\ key_of(new[j]) = key_of(old[i])
             /\ \A c \in EnrolVolumes \cup DemoVolumes \cup BioVolumes :
                   new[j][c] = old[i][c]
             /\ DOMAIN old[i] \subseteq DOMAIN new[j]

C21_StagesKeepRows ==
    [][(pc \in StagesAfterAggregation) => KeptRows(ews_data, ews_data')]_vars

\* a saved table of ten rows, sorted by district, with a flagged row
W21_SavedSortedTable ==
    /\ pc = "done"
    /\ Len(ews_data) = 10
    /\ entity_of(ews_data[5]) # entity_of(ews_data[6])
    /\ \E i \in Rows : ews_data[i].is_anomaly
    /\ \A i \in Rows : "data_quality_flag" \in DOMAIN ews_data[i]

(***************************************************************************)
(* C22: the second observation of an entity is never labelled              *)
(* accelerating_up or accelerating_down; its label is rising if its change *)
(* is above 3, stable if the change is above -3 and at most 3, declining   *)
(* if the change is at most -3.                                            *)
(***************************************************************************)
IsSecondObservation(i) ==
    /\ PreviousObservation(i) # 0
    /\ PreviousObservation(PreviousObservation(i)) = 0

C22_SecondObservationNotAccelerating ==
    Trended =>
        \A i \in Rows :
            IsSecondObservation(i) =>
                /\ ews_data[i].severity_trend \notin {"accelerating_up", "accelerating_down"}
                /\ RGt(ChangeOf(i), RInt(3)) => ews_data[i].severity_trend = "rising"
                /\ (RGt(ChangeOf(i), RInt(-3)) /\ RLe(ChangeOf(i), RInt(3)))
                      => ews_data[i].severity_trend = "stable"
                /\ RLe(ChangeOf(i), RInt(-3)) => ews_data[i].severity_trend = "declining"

\* second observations with a change above 5 and with a change below -5
W22_SteepSecondObservations ==
    /\ Trended
    /\ \E i, j \in Rows :
          /\ IsSecondObservation(i)
          /\ RGt(ChangeOf(i), RInt(5))
          /\ ews_data[i].severity_trend = "rising"
          /\ IsSecondObservation(j)
          /\ RLt(ChangeOf(j), RInt(-5))
          /\ ews_data[j].severity_trend = "declining"

(***************************************************************************)
(* C23: for each stream, the stream total summed over all output rows is   *)
(* the sum of all age-bracket counts of the stream's event rows with a     *)
(* parseable date, rows with an unresolved postal code or a missing        *)
(* reported label included.                                                *)
(***************************************************************************)
OutputSum(col) == SumSet(Rows, [i \in Rows |-> ews_data[i][col]])

ParseableSum(df, cols) ==
    SumSet({i \in DOMAIN df : ~df[i].date.nat},
           [i \in DOMAIN df |-> SumSet(cols, [c \in cols |-> df[i][c]])])

C23_CountsConserved ==
    Aggregated =>
        /\ OutputSum("enrol_total") =
              ParseableSum(enrolment_df, {"age_0_5", "age_5_17", "age_18_greater"})
        /\ OutputSum("demo_total") =
              ParseableSum(demographic_df, {"demo_age_5_17", "demo_age_17_"})
        /\ OutputSum("bio_total") =
              ParseableSum(biometric_df, {"bio_age_5_17", "bio_age_17_"})

\* C23 on the runs in which every date parses: a dated row without a district
\* is still lost
C23_DatedCountsConserved ==
    (Aggregated /\ \A i \in DOMAIN biometric_df : ~biometric_df[i].date.nat) =>
        OutputSum("bio_total") =
            ParseableSum(biometric_df, {"bio_age_5_17", "bio_age_17_"})

(***************************************************************************)
(* C24: with Stable < Watchlist < Emerging_Risk < Critical, for a fixed    *)
(* trend label and anomaly flag a higher severity score never gives a      *)
(* lower tier, and for a fixed score and trend label setting the anomaly   *)
(* flag never gives a lower tier than leaving it unset.                    *)
(***************************************************************************)
TierRank(category) ==
    CASE category = "Stable" -> 0
      [] category = "Watchlist" -> 1
      [] category = "Emerging_Risk" -> 2
      [] category = "Critical" -> 3

C24_TierMonotone ==
    Classified =>
        \A i \in Rows :
            LET row == ews_data[i]
            IN /\ \A s \in RiskScores :
                     RGe(RInt(s), row.severity_score) =>
                        TierRank(assign_risk(RInt(s), row.severity_trend, row.is_anomaly))
                            >= TierRank(row.risk_category)
               /\ TierRank(assign_risk(row.severity_score, row.severity_trend, TRUE))
                     >= TierRank(row.risk_category)

\* a row in a middle tier, which a higher score and a set flag both lift
W24_MiddleTier ==
    /\ Classified
    /\ \E i \in Rows :
          /\ REq(ews_data[i].severity_score, RInt(80))
          /\ ews_data[i].severity_trend = "rising"
          /\ ~ews_data[i].is_anomaly
          /\ ews_data[i].risk_category = "Emerging_Risk"

(***************************************************************************)
(* C25: a row whose anomaly flag is set is never Emerging_Risk, which is   *)
(* given exactly to the rows with the flag unset, 75 <= score < 90 and     *)
(* trend accelerating_up or rising; an anomalous row with score < 60 is    *)
(* Stable exactly when its trend is declining, and Watchlist when it is    *)
(* accelerating_down or insufficient_data.                                 *)
(***************************************************************************)
C25_AnomalousNeverEmerging ==
    Classified =>
        \A i \in Rows :
            LET row == ews_data[i]
                up == row.severity_trend \in {"accelerating_up", "rising"}
            IN /\ row.is_anomaly => row.risk_category # "Emerging_Risk"
               /\ row.risk_category = "Emerging_Risk" <=>
                     (/\ ~row.is_anomaly
                      /\ RGe(row.severity_score, RInt(75))
                      /\ RLt(row.severity_score, RInt(90))
                      /\ up)
               /\ (row.is_anomaly /\ RLt(row.severity_score, RInt(60))) =>
                     /\ row.risk_category = "Stable" <=> row.severity_trend = "declining"
                     /\ row.severity_trend \in {"accelerating_down", "insufficient_data"}
                           => row.risk_category = "Watchlist"

\* anomalous rows below 60: one declining, one a first observation
W25_AnomalousBelowSixty ==
    /\ Classified
    /\ \E i, j \in Rows :
          /\ ews_data[i].is_anomaly
          /\ RLt(ews_data[i].severity_score, RInt(60))
          /\ ews_data[i].severity_trend = "declining"
          /\ ews_data[i].risk_category = "Stable"
          /\ ews_data[j].is_anomaly
          /\ RLt(ews_data[j].severity_score, RInt(60))
          /\ ews_data[j].severity_trend = "insufficient_data"
          /\ ews_data[j].risk_category = "Watchlist"

====
